---- MODULE Spec2Model ----
(***************************************************************************)
(* Session authentication of the Express starter: credential hashing       *)
(* (scrypt, hex, salt), the Passport local strategy, the register / login  *)
(* / logout / current-user handlers and the user store behind them.        *)
(*                                                                         *)
(* Two servers of the repository are modelled, selected by `server`:       *)
(*   "modular"  server/src (auth.controller, auth.middleware,              *)
(*              user.controller, PrismaStorage over the database)          *)
(*   "legacy"   server/auth.ts over MemStorage (server/storage.ts), with   *)
(*              the /api/users handlers of server/routes.ts                *)
(* The storage interface, the global error handler of                      *)
(* packages/error-formatter, the self-contained demo servers, the client's *)
(* registration form and the shutdown of the server process have           *)
(* specifications of their own.                                            *)
(* Strings that the code inspects character by character (passwords,       *)
(* hashes, salts) are sequences of one-character strings.                  *)
(***************************************************************************)
EXTENDS Integers, Sequences, FiniteSets, TLC

VARIABLES
    server,      \* which server of the repository is running
    users,       \* the user store: id -> user record
    nextId,      \* the next id the store hands out
    sess,        \* session id -> session.passport.user (0: none)
    req,         \* request slot -> the request in flight in it
    resp,        \* the response last sent
    nreq,        \* the number of requests received so far
    dbUsers,     \* server/routes.ts: the users table its handlers use
    dbNextId,    \* the next id of that table
    hpc, hpw, hsupplied, hsalt, hstored, hverdict,  \* the hashing harness
    tokens,      \* the refresh tokens of the store
    tokenId,     \* the next refresh token id
    slast,       \* the storage call last made, with the tokens before it
    eerr,        \* the error last passed to the global error handler
    eenv,        \* process.env.NODE_ENV
    eres,        \* the global error handler's response to eerr
    demo,        \* which self-contained demo server is running
    dusers,      \* its users array
    dsessions,   \* standalone-server.cjs: the sessions object
    dres,        \* the demo server's last response
    form,        \* the client's registration form and what became of it
    proc         \* the server process, its connections and its shutdown

vars == <<server, users, nextId, sess, req, resp, nreq, dbUsers, dbNextId,
          hpc, hpw, hsupplied, hsalt, hstored, hverdict,
          tokens, tokenId, slast, eerr, eenv, eres,
          demo, dusers, dsessions, dres, form, proc>>

appVars == <<server, users, nextId, sess, req, resp, nreq, dbUsers, dbNextId>>
hashVars == <<hpc, hpw, hsupplied, hsalt, hstored, hverdict>>
tokenVars == <<tokens, tokenId, slast>>
errorVars == <<eerr, eenv, eres>>
demoVars == <<demo, dusers, dsessions, dres>>
formVars == <<form>>
procVars == <<proc>>
harnessVars ==
    <<hashVars, tokenVars, errorVars, demoVars, formVars, procVars>>

----------------------------------------------------------------------------
(* Characters, bytes and hex                                               *)

\* The printable ASCII characters in code order, 32 (space) to 126 (~).
Ascii ==
  <<
    " ","!","\"","#","$","%","&","'","(",")","*","+",",","-",".","/","0",
    "1","2","3","4","5","6","7","8","9",":",";","<","=",">","?","@","A","B",
    "C","D","E","F","G","H","I","J","K","L","M","N","O","P","Q","R","S","T",
    "U","V","W","X","Y","Z","[","\\","]","^","_","(grave)","a","b","c","d",
    "e","f","g","h","i","j","k","l","m","n","o","p","q","r","s","t","u","v",
    "w","x","y","z","{","|","}","~"
  >>

\* The UTF-8 code of an ASCII character.
CharCodes == [c \in {Ascii[i] : i \in 1..Len(Ascii)} |->
                 31 + CHOOSE i \in 1..Len(Ascii) : Ascii[i] = c]
CharCode(c) == CharCodes[c]

HexDigits ==
    <<"0","1","2","3","4","5","6","7","8","9","a","b","c","d","e","f">>
UpperHex == <<"A","B","C","D","E","F">>

HexChars == {HexDigits[i] : i \in 1..16} \cup {UpperHex[i] : i \in 1..6}

IsHexChar(c) == c \in HexChars

HexVals == [c \in HexChars |->
               IF \E i \in 1..16 : HexDigits[i] = c
               THEN (CHOOSE i \in 1..16 : HexDigits[i] = c) - 1
               ELSE 9 + CHOOSE i \in 1..6 : UpperHex[i] = c]
HexVal(c) == HexVals[c]

\* buf.toString("hex"): two lower-case digits per byte.
ToHex(bytes) ==
    [i \in 1..(2 * Len(bytes)) |->
        IF i % 2 = 1 THEN HexDigits[(bytes[(i + 1) \div 2] \div 16) + 1]
                     ELSE HexDigits[(bytes[i \div 2] % 16) + 1]]

\* Buffer.from(s, "hex"): decodes pairs of hex digits and stops at the first
\* pair that is not hex (or at a trailing single character).
HexPairs(s) ==
    LET bad == {k \in 1..(Len(s) \div 2) :
                   ~(IsHexChar(s[2 * k - 1]) /\ IsHexChar(s[2 * k]))}
    IN IF bad = {} THEN Len(s) \div 2
       ELSE (CHOOSE k \in bad : \A j \in bad : k <= j) - 1

FromHex(s) ==
    [k \in 1..HexPairs(s) |-> 16 * HexVal(s[2 * k - 1]) + HexVal(s[2 * k])]

StartsWith(s, prefix) ==
    /\ Len(s) >= Len(prefix)
    /\ SubSeq(s, 1, Len(prefix)) = prefix

\* The positions of "." in s.
Dots(s) == {i \in 1..Len(s) : s[i] = "."}

Undefined == "undefined"

\* const [hashed, salt] = stored.split("."): the first two pieces.
SplitFirst(s) ==
    IF Dots(s) = {} THEN s
    ELSE SubSeq(s, 1, (CHOOSE i \in Dots(s) : \A j \in Dots(s) : i <= j) - 1)

SplitSecond(s) ==
    IF Dots(s) = {} THEN Undefined
    ELSE LET d1 == CHOOSE i \in Dots(s) : \A j \in Dots(s) : i <= j
             rest == {j \in Dots(s) : j > d1}
             d2 == IF rest = {} THEN Len(s) + 1
                   ELSE CHOOSE i \in rest : \A j \in rest : i <= j
         IN SubSeq(s, d1 + 1, d2 - 1)

\* JavaScript's !x for a string or undefined.
Falsy(x) == x = Undefined \/ x = <<>>

----------------------------------------------------------------------------
(* Credential hashing (server/src/middleware/auth.middleware.ts)           *)

KeyLen == 64
SaltLen == 16
MinPassword == 8
MaxPassword == 100
MinUsername == 3
MaxUsername == 50

\* The bytes the key-derivation function reads: the password and the salt
\* string, each as UTF-8, the password's length first.
KdfInput(password, salt) ==
    <<Len(password)>> \o [i \in 1..Len(password) |-> CharCode(password[i])]
                      \o [i \in 1..Len(salt) |-> CharCode(salt[i])]

RECURSIVE KdfFold(_, _, _, _)
KdfFold(input, i, keylen, round) ==
    IF i > Len(input) THEN 0
    ELSE input[i] * round + KdfFold(input, i + keylen, keylen, round + 1)

\* crypto.scrypt(password, salt, keylen): a deterministic function of the
\* password and the salt giving keylen bytes.  The derivation itself is a
\* stand-in that, like scrypt for all practical purposes, gives different
\* keys for different (password, salt) pairs of the model.
Scrypt(password, salt, keylen) ==
    LET input == KdfInput(password, salt)
    IN [i \in 1..keylen |-> KdfFold(input, i, keylen, 1) % 256]

\* randomBytes(n): the byte strings the model draws salts from.
SaltFill == {0, 171}
RandomBytes(n) == {[i \in 1..n |-> b] : b \in SaltFill}

\* hashPassword without the "." between the key and the salt.
hashPassword_SaltDropped(password, saltBytes) ==
    LET salt == ToHex(saltBytes)
        buf == Scrypt(password, salt, KeyLen)
    IN ToHex(buf) \o salt

hashPassword(password, saltBytes) ==
    LET salt == ToHex(saltBytes)
        buf == Scrypt(password, salt, KeyLen)
    IN ToHex(buf) \o <<".">> \o salt

AdminPassword == <<"a","d","m","i","n","1","2","3">>
BcryptPrefix == <<"$","2","a","$">>

timingSafeEqual(a, b) == a = b

comparePasswords(supplied, stored) ==
    IF StartsWith(stored, BcryptPrefix) THEN supplied = AdminPassword
    ELSE LET hashed == SplitFirst(stored)
             salt == SplitSecond(stored)
         IN IF Falsy(hashed) \/ Falsy(salt) THEN FALSE
            ELSE LET hashedBuf == FromHex(hashed)
                     suppliedBuf == Scrypt(supplied, salt, KeyLen)
                 IN IF Len(hashedBuf) # Len(suppliedBuf) THEN FALSE
                    ELSE timingSafeEqual(hashedBuf, suppliedBuf)

\* The seeded administrator's stored password (a bcrypt string).
AdminHash ==
  <<
    "$","2","a","$","1","2","$","o","2",".","R","N","5","V","6","6","L","G",
    "D","W","Z","f","z","j","/","R","B",".","e","t","T","9","h","7","M","/",
    "q","7","z","i","6","G","c","c","d","Y","d","6","Q","6","Y","z","U",".",
    "m","1","z","J","J","u"
  >>

----------------------------------------------------------------------------
(* Data model (shared/schema.ts) and the inputs requests are drawn from    *)

UserRole == [USER |-> "user", ADMIN |-> "admin"]
UserStatus == [ACTIVE |-> "active", DISABLED |-> "disabled",
               SUSPENDED |-> "suspended"]
Statuses == {UserStatus.ACTIVE, UserStatus.DISABLED, UserStatus.SUSPENDED}

\* The number of requests (and direct storage calls) a behaviour holds.
MaxRequests == 3

Servers == {"modular", "legacy"}
Sessions == {"s1"}
Slots == {1, 2}

Password1 == <<"p","a","s","s","w","0","r","d">>
PasswordShort == <<"s","h","o","r","t">>

\* The request bodies {username, password} the model sends.
Body(username, password) == [username |-> username, password |-> password]
Bodies ==
    {Body("admin", AdminPassword), Body("admin", Password1),
     Body("alice", Password1), Body("alice", AdminPassword),
     Body("alice", PasswordShort), Body("al", Password1)}

\* What a request body can carry beyond username and password.
NoExtra == <<>>
Extras ==
    {NoExtra,
     [role |-> UserRole.ADMIN, status |-> UserStatus.DISABLED, id |-> 9]}

\* { ...a, ...b } with the fields of a last.
Spread_FirstWins(a, b) ==
    [f \in DOMAIN a \cup DOMAIN b |-> IF f \in DOMAIN a THEN a[f] ELSE b[f]]

\* { ...a, ...b }: a field of both takes its value from b.
Spread(a, b) ==
    [f \in DOMAIN a \cup DOMAIN b |-> IF f \in DOMAIN b THEN b[f] ELSE a[f]]

\* insertUserSchema.parse(body) that keeps the fields it does not know.
validatedData_Passthrough(body) == body

\* insertUserSchema.parse(body): the fields of the schema, the others
\* stripped.
validatedData(body) ==
    [f \in DOMAIN body \cap {"username", "password"} |-> body[f]]

NoUser == [id |-> 0, username |-> "", password |-> <<>>, role |-> "",
           status |-> ""]

\* insertUserSchema.safeParse(req.body).success
ValidInsertUser(username, password) ==
    /\ Len(username) >= MinUsername /\ Len(username) <= MaxUsername
    /\ Len(password) >= MinPassword /\ Len(password) <= MaxPassword

----------------------------------------------------------------------------
(* The client's registration form (client auth page) and the schema the    *)
(* server parses its payload with                                          *)

\* A string of n characters.
StringOf(n) == [i \in 1..n |-> "a"]

\* z.string().email(): one "@" after a local part, then a domain with a dot
\* that at least two characters follow.
IsEmail(s) ==
    \E at \in 2..Len(s) :
        /\ s[at] = "@"
        /\ \A i \in 1..Len(s) : s[i] = "@" => i = at
        /\ \E dot \in (at + 2)..(Len(s) - 2) : s[dot] = "."

\* registerSchema.safeParse(data).success: the form's own validation.
registerSchema(data) ==
    /\ Len(data.username) >= MinUsername
    /\ "email" \in DOMAIN data => (IsEmail(data.email) \/ data.email = <<>>)
    /\ Len(data.password) >= MinPassword
    /\ data.password = data.confirmPassword

\* const { confirmPassword, ...registrationData } = data
registrationData(data) ==
    [f \in DOMAIN data \ {"confirmPassword"} |-> data[f]]

\* insertUserSchema.safeParse(body).success, the email included.
insertUserSchema(body) ==
    /\ ValidInsertUser(body.username, body.password)
    /\ "email" \in DOMAIN body => IsEmail(body.email)

NoForm == [pc |-> "off", data |-> <<>>, body |-> <<>>, success |-> FALSE]

\* No server process is modelled.
NoProcess == [file |-> "none", closesIdle |-> FALSE, state |-> "off",
              code |-> 0, conns |-> <<>>, timers |-> 0, signals |-> 0]

-----------------------------------------------------------------------------
(* Storage (PrismaStorage over the database; MemStorage)                    *)

getUser(id) == IF id \in DOMAIN users THEN users[id] ELSE NoUser

getUserByUsername(username) ==
    IF \E id \in DOMAIN users : users[id].username = username
    THEN users[CHOOSE id \in DOMAIN users :
                   /\ users[id].username = username
                   /\ \A other \in DOMAIN users :
                          users[other].username = username => id <= other]
    ELSE NoUser

\* The database's unique index on users.username; MemStorage has none.
UniqueViolation(username, exceptId) ==
    /\ server = "modular"
    /\ \E id \in DOMAIN users : id # exceptId /\ users[id].username = username

NewUser(id, username, password, role, status) ==
    [id |-> id, username |-> username, password |-> password,
     role |-> role, status |-> status]

\* value || default of an optional field.
OrDefault(userData, field, default) ==
    IF field \in DOMAIN userData /\ userData[field] # ""
    THEN userData[field] ELSE default

\* storage.createUser(userData): the row built from the fields it reads.
createUser(id, userData) ==
    NewUser(id, userData.username, userData.password,
            OrDefault(userData, "role", UserRole.USER),
            OrDefault(userData, "status", UserStatus.ACTIVE))

\* storage.createUser / prisma.user.create: the store after the insert.
Inserted(user) == [id \in DOMAIN users \cup {user.id} |->
                      IF id = user.id THEN user ELSE users[id]]

Removed(id) == [other \in DOMAIN users \ {id} |-> users[other]]

----------------------------------------------------------------------------
(* The self-contained demo servers: standalone-server.cjs and the Replit   *)
(* deployment server                                                       *)

DemoServers == {"standalone", "replit"}

\* crypto.createHash('sha256').update(password).digest('hex'), for the
\* passwords the model sends: the first eight of the 64 hex characters.
sha256Hex(password) ==
    CASE password = "password" -> "5e884898"
      [] password = "wrong" -> "8810ad58"
      [] password = "passw0rd" -> "8f0e2f76"
      [] password = "" -> "e3b0c442"

\* hashPassword of standalone-server.cjs
demoHashPassword(password) == sha256Hex(password)

\* A user of a demo server; standalone-server.cjs keeps the digest in
\* passwordHash, the Replit deployment server a string in password.
DemoUser(id, username, secret) ==
    [id |-> id, username |-> username, secret |-> secret, role |-> "user",
     status |-> "active"]

\* The users array both files start with: the passwordHash of
\* standalone-server.cjs (its first eight characters), the bcrypt string of
\* the Replit deployment server.
DemoSeed ==
    <<DemoUser(1, "demo", IF demo = "standalone" THEN "fce10dd2"
                          ELSE "$2a$10$9u5bCjfFNDk8l0Ev2xeJTu")>>

\* const user = { ...newUser }; delete user.passwordHash, and the fields the
\* Replit deployment server copies into its answer.
WithoutSecret(user) == [f \in DOMAIN user \ {"secret"} |-> user[f]]

\* A response body without a user.
NoDemoBody == <<>>

NoDemoResponse ==
    [op |-> "none", username |-> "", password |-> "", auth |-> <<>>,
     status |-> 0, error |-> "", user |-> NoDemoBody, token |-> "",
     known |-> {}]

\* The demo servers are not running.
DemoOff ==
    /\ demo = "off" /\ dusers = <<>> /\ dsessions = <<>>
    /\ dres = NoDemoResponse

-----------------------------------------------------------------------------
(* packages/error-formatter: the error classes and the formatters          *)

NodeEnvs == {"production", "development", "test", "undefined"}

GenericMessage == "An unexpected error occurred"

\* details === undefined
NoDetails == <<>>

\* An error object: its class, its name and message, the status and details
\* of an ApiError (0 and NoDetails where the class has none), the issues of
\* a ZodError.
ErrorObject(class, message, status, details, errors) ==
    [class |-> class, name |-> class, message |-> message,
     status |-> status, details |-> details, errors |-> errors]

NoError == ErrorObject("none", "", 0, NoDetails, <<>>)
NoReply == [status |-> 0, body |-> <<>>]

\* new Error(message), new TypeError(message)
Error(class, message) == ErrorObject(class, message, 0, NoDetails, <<>>)

\* new ZodError(issues)
ZodError(issues) ==
    ErrorObject("ZodError", "Invalid input", 0, NoDetails, issues)

\* new ApiError(message, status, details)
ApiError(message, status, details) ==
    ErrorObject("ApiError", message, status, details, <<>>)

\* A subclass of ApiError: super(message, status, details) and its own name.
Subclass(class, message, status, details) ==
    [ApiError(message, status, details) EXCEPT !.class = class,
                                               !.name = class]

\* new NotFoundError(resource, id): an id of 0, like an absent one, is
\* left out of the message.
NotFoundError(resource, id) ==
    Subclass("NotFoundError",
             IF id # 0
             THEN resource \o " with ID " \o ToString(id) \o " not found"
             ELSE resource \o " not found",
             404, NoDetails)

UnauthorizedError(message) ==
    Subclass("UnauthorizedError", message, 403, NoDetails)

AuthenticationError(message) ==
    Subclass("AuthenticationError", message, 401, NoDetails)

ValidationError(message, details) ==
    Subclass("ValidationError", message, 400, details)

\* new ConflictError(message, field): field "" is an absent field.
ConflictError(message, field) ==
    Subclass("ConflictError", message, 409,
             IF field # "" THEN [field |-> field] ELSE NoDetails)

ApiErrorClasses ==
    {"ApiError", "NotFoundError", "UnauthorizedError", "AuthenticationError",
     "ValidationError", "ConflictError"}

\* err instanceof ZodError, err instanceof ApiError
InstanceOfZodError(err) == err.class = "ZodError"
InstanceOfApiError(err) == err.class \in ApiErrorClasses

formatApiError(error, message, details) ==
    IF details = NoDetails
    THEN [error |-> error, message |-> message]
    ELSE [error |-> error, message |-> message, details |-> details]

\* err.path[0]?.toString() || 'unknown'
IssueField(issue) ==
    IF issue.path = <<>> \/ issue.path[1] = "" THEN "unknown"
    ELSE issue.path[1]

formatZodError(zodError) ==
    LET fields == {IssueField(zodError.errors[i]) :
                       i \in DOMAIN zodError.errors}
        errorDetail(issue) ==
            [code |-> issue.code, expected |-> "", received |-> "",
             path |-> issue.path, message |-> issue.message]
        fieldErrors(field) ==
            LET OfField(issue) == IssueField(issue) = field
                issues == SelectSeq(zodError.errors, OfField)
            IN [i \in DOMAIN issues |-> errorDetail(issues[i])]
    IN [error |-> "Validation Error",
        details |-> [field \in fields |-> fieldErrors(field)]]

\* The message of the 500 answer, were it always the error's own.
UnknownErrorMessage_Raw(err, env) == err.message

\* The message of the 500 answer to an error of no known class.
UnknownErrorMessage(err, env) ==
    IF env = "production" THEN GenericMessage ELSE err.message

errorHandlerMiddleware(err, env) ==
    IF InstanceOfZodError(err)
    THEN [status |-> 400, body |-> formatZodError(err)]
    ELSE IF InstanceOfApiError(err)
    THEN [status |-> err.status,
          body |-> formatApiError(err.name, err.message, err.details)]
    ELSE [status |-> 500,
          body |-> formatApiError("Internal Server Error",
                                  UnknownErrorMessage(err, env), NoDetails)]

-----------------------------------------------------------------------------
(* Requests and responses                                                   *)

Idle == [op |-> "none", pc |-> "idle", sid |-> "", username |-> "",
         password |-> <<>>, found |-> NoUser, hashed |-> <<>>]

\* const { password, ...userWithoutPassword } = user, keeping the password.
WithoutPassword_Kept(user) == user

\* const { password, ...userWithoutPassword } = user
WithoutPassword(user) == [f \in DOMAIN user \ {"password"} |-> user[f]]

\* The "user" of a response body that carries no user.
NoBody == WithoutPassword(NoUser)

NoResp == [op |-> "none", sid |-> "", username |-> "", password |-> <<>>,
           before |-> 0, status |-> 0, error |-> "", message |-> "",
           uid |-> 0, user |-> NoBody, extra |-> NoExtra]

\* A response, with the request it answers and the user the session named
\* when the handler ran.
Response(op, sid, username, password, status, error, message, uid) ==
    [op |-> op, sid |-> sid, username |-> username, password |-> password,
     before |-> sess[sid], status |-> status, error |-> error,
     message |-> message, uid |-> uid, user |-> NoBody, extra |-> NoExtra]

\* The response of a handler that read the extra fields of the body.
WithExtra(response, extra) == [response EXCEPT !.extra = extra]

\* res.json({ user: ... }) / res.json(user): the response with a user in
\* its body.
WithBody(response, user) == [response EXCEPT !.user = user]

\* req.login that does not save the user in the session.
LoggedIn_NotSaved(s, user) == sess

\* req.login(user) with passport.serializeUser: the session names user.id.
LoggedIn(s, user) == [sess EXCEPT ![s] = user.id]

\* passport.deserializeUser: the user the session's id names, if stored.
Deserialized(s) == IF sess[s] = 0 THEN NoUser ELSE getUser(sess[s])

\* req.isAuthenticated() judged by the session's id alone.
IsAuthenticated_SessionOnly(s) == sess[s] # 0

\* req.isAuthenticated()
IsAuthenticated(s) == Deserialized(s) # NoUser

\* The slot a request that has to wait takes: the first idle one.
FreeSlot(r) ==
    /\ req[r].pc = "idle"
    /\ \A other \in Slots : req[other].pc = "idle" => r <= other

\* No storage call made yet.
NoCall == [op |-> "none", userId |-> 0, before |-> {}]

\* A request is received: it counts against the bound of the model.
Received == nreq < MaxRequests /\ nreq' = nreq + 1

\* The rows the database of server/routes.ts can hold when the server
\* starts: none, or rows that earlier runs left in it.
EarlierRows ==
    <<NewUser(1, "admin", AdminHash, UserRole.ADMIN, UserStatus.ACTIVE),
      NewUser(2, "alice", Password1, UserRole.USER, UserStatus.ACTIVE)>>

Init ==
    /\ server \in Servers
    /\ users = [id \in {1} |-> NewUser(1, "admin", AdminHash, UserRole.ADMIN,
                                       UserStatus.ACTIVE)]
    /\ nextId = 2
    /\ sess = [s \in Sessions |-> 0]
    /\ req = [r \in Slots |-> Idle]
    /\ resp = NoResp
    /\ nreq = 0
    /\ dbUsers \in IF server = "modular" THEN {<<>>}
                   ELSE {<<>>, EarlierRows}
    /\ dbNextId = Len(dbUsers) + 1
    /\ hpc = "off" /\ hpw = <<>> /\ hsupplied = <<>> /\ hsalt = <<>>
    /\ hstored = <<>> /\ hverdict = FALSE
    /\ tokens = {} /\ tokenId = 1 /\ slast = NoCall
    /\ eerr = NoError /\ eenv = "undefined" /\ eres = NoReply
    /\ DemoOff
    /\ form = NoForm
    /\ proc = NoProcess

----------------------------------------------------------------------------
(* POST /api/register                                                       *)

RegisterStart(r, s, username, password) ==
    /\ Received
    /\ FreeSlot(r)
    /\ LET found == getUserByUsername(username)
       IN IF server = "modular" /\ ~ValidInsertUser(username, password)
          THEN /\ resp' = Response("register", s, username, password, 400,
                                   "Validation Error",
                                   "Invalid registration data", 0)
               /\ UNCHANGED req
          ELSE IF found # NoUser
          THEN /\ resp' = Response("register", s, username, password,
                                   IF server = "modular" THEN 409 ELSE 400,
                                   IF server = "modular"
                                   THEN "Conflict Error" ELSE "",
                                   "Username already exists", 0)
               /\ UNCHANGED req
          ELSE /\ req' = [req EXCEPT ![r] =
                            [op |-> "register", pc |-> "hash", sid |-> s,
                             username |-> username, password |-> password,
                             found |-> NoUser, hashed |-> <<>>]]
               /\ UNCHANGED resp
    /\ UNCHANGED <<server, dbUsers, dbNextId, users, nextId, sess>>
    /\ UNCHANGED harnessVars

RegisterHash(r, saltBytes) ==
    /\ UNCHANGED nreq
    /\ req[r].op = "register" /\ req[r].pc = "hash"
    /\ req' = [req EXCEPT ![r].hashed =
                                hashPassword(req[r].password, saltBytes),
                          ![r].pc = "create"]
    /\ UNCHANGED <<server, dbUsers, dbNextId, users, nextId, sess, resp>>
    /\ UNCHANGED harnessVars

SessionError == "Failed to save session"

\* The userData of the register handlers: the body (parsed by the schema in
\* auth.controller.ts, as sent in server/auth.ts) with the hashed password,
\* the status and the role written over it.
RegisterData(r, extra) ==
    LET body == Spread(Body(req[r].username, req[r].password), extra)
    IN Spread(IF server = "modular" THEN validatedData(body) ELSE body,
              [password |-> req[r].hashed, status |-> UserStatus.ACTIVE,
               role |-> UserRole.USER])

\* The body's extra fields are chosen here, where the handler first reads
\* them.  req.login saves the session in the session store, which can fail:
\* the callback then gets the error and passes it on with next(err).
RegisterCreate(r) ==
    /\ UNCHANGED nreq
    /\ req[r].op = "register" /\ req[r].pc = "create"
    /\ \E extra \in Extras :
         LET answer(status, error, message, uid) ==
                 WithExtra(Response("register", req[r].sid, req[r].username,
                                    req[r].password, status, error, message,
                                    uid), extra)
         IN IF UniqueViolation(req[r].username, 0)
            THEN \* prisma.user.create throws; next(error) reaches the error
                 \* handler
                 /\ resp' = answer(500, "Internal Server Error",
                                   "Unique constraint", 0)
                 /\ UNCHANGED <<users, nextId, sess>>
            ELSE LET user == createUser(nextId, RegisterData(r, extra))
                 IN /\ users' = Inserted(user)
                    /\ nextId' = nextId + 1
                    /\ \/ /\ sess' = LoggedIn(req[r].sid, user)
                          /\ resp' = WithBody(answer(201, "", "", user.id),
                                              WithoutPassword(user))
                       \/ /\ sess' = sess
                          /\ resp' = answer(500, "Internal Server Error",
                                            SessionError, user.id)
    /\ req' = [req EXCEPT ![r] = Idle]
    /\ UNCHANGED <<server, dbUsers, dbNextId>>
    /\ UNCHANGED harnessVars

----------------------------------------------------------------------------
(* POST /api/login: the LocalStrategy verify callback and the controller    *)

InvalidCredentials == "Invalid username or password"
AccountDisabled == "Account is disabled"

\* The body's "error" field of a failed login (absent in server/auth.ts).
AuthError == IF server = "modular" THEN "Authentication Error" ELSE ""

LoginStart(r, s, username, password) ==
    /\ Received
    /\ FreeSlot(r)
    /\ LET found == getUserByUsername(username)
       IN IF found = NoUser
          THEN /\ resp' = Response("login", s, username, password, 401,
                                   AuthError, InvalidCredentials, 0)
               /\ UNCHANGED req
          ELSE /\ req' = [req EXCEPT ![r] =
                            [op |-> "login", pc |-> "compare", sid |-> s,
                             username |-> username, password |-> password,
                             found |-> found, hashed |-> <<>>]]
               /\ UNCHANGED resp
    /\ UNCHANGED <<server, dbUsers, dbNextId, users, nextId, sess>>
    /\ UNCHANGED harnessVars

\* The verify callback without its status check.
VerifyMessage_NoStatusCheck(user, password) ==
    IF ~comparePasswords(password, user.password) THEN InvalidCredentials
    ELSE ""

\* The verify callback checking the status before the password.
VerifyMessage_StatusFirst(user, password) ==
    IF user.status = UserStatus.DISABLED THEN AccountDisabled
    ELSE IF ~comparePasswords(password, user.password) THEN InvalidCredentials
    ELSE ""

\* What the verify callback hands to done(): "" with the user, or the info
\* message of a refusal.
VerifyMessage(user, password) ==
    IF ~comparePasswords(password, user.password) THEN InvalidCredentials
    ELSE IF user.status = UserStatus.DISABLED THEN AccountDisabled
    ELSE ""

LoginFinish(r) ==
    /\ UNCHANGED nreq
    /\ req[r].op = "login" /\ req[r].pc = "compare"
    /\ LET user == req[r].found
           message == VerifyMessage(user, req[r].password)
       IN IF message # ""
          THEN /\ resp' = Response("login", req[r].sid, req[r].username,
                                   req[r].password, 401, AuthError, message,
                                   0)
               /\ UNCHANGED sess
          ELSE /\ sess' = LoggedIn(req[r].sid, user)
               /\ resp' = WithBody(Response("login", req[r].sid,
                                            req[r].username, req[r].password,
                                            200, "", "", user.id),
                                   WithoutPassword(user))
    /\ req' = [req EXCEPT ![r] = Idle]
    /\ UNCHANGED <<server, dbUsers, dbNextId, users, nextId>>
    /\ UNCHANGED harnessVars

----------------------------------------------------------------------------
(* POST /api/logout and GET /api/user                                       *)

\* req.logout that leaves the session as it is.
LoggedOut_Kept(s) == sess

\* req.logout: the session no longer names a user.
LoggedOut(s) == [sess EXCEPT ![s] = 0]

Logout(s) ==
    /\ Received
    /\ sess' = LoggedOut(s)
    /\ resp' = Response("logout", s, "", <<>>, 200, "",
                        "Logged out successfully", 0)
    /\ UNCHANGED <<server, dbUsers, dbNextId, users, nextId, req>>
    /\ UNCHANGED harnessVars

GetCurrentUser(s) ==
    /\ Received
    /\ IF ~IsAuthenticated(s)
       THEN resp' = Response("user", s, "", <<>>, 401, AuthError,
                             "Not authenticated", 0)
       ELSE resp' = WithBody(Response("user", s, "", <<>>, 200, "", "",
                                      Deserialized(s).id),
                             WithoutPassword(Deserialized(s)))
    /\ UNCHANGED <<server, dbUsers, dbNextId, users, nextId, sess, req>>
    /\ UNCHANGED harnessVars

----------------------------------------------------------------------------
(* storage.updateUserStatus                                                 *)

UpdateUserStatus(id, status) ==
    /\ Received
    /\ id \in DOMAIN users
    /\ users[id].status # status
    /\ users' = [users EXCEPT ![id].status = status]
    /\ UNCHANGED <<server, dbUsers, dbNextId, nextId, sess, req, resp>>
    /\ UNCHANGED harnessVars

----------------------------------------------------------------------------
(* /api/users: server/src/routes/user.routes.ts with user.controller.ts,    *)
(* and the handlers of server/routes.ts.  Both use the Prisma client.       *)

\* The users table the Prisma client reads and writes.  PrismaStorage is
\* over the same table; server/auth.ts keeps its users in MemStorage.
Table == IF server = "modular" THEN users ELSE dbUsers
TableNextId == IF server = "modular" THEN nextId ELSE dbNextId

\* The table's unique index on username.
TableUniqueViolation(username, exceptId) ==
    \E id \in DOMAIN Table :
        id # exceptId /\ Table[id].username = username

TableWith(user) == [id \in DOMAIN Table \cup {user.id} |->
                       IF id = user.id THEN user ELSE Table[id]]

TableWithout(id) == [other \in DOMAIN Table \ {id} |-> Table[other]]

\* The table becomes rows, the next id becomes id.
TableSet(rows, id) ==
    IF server = "modular"
    THEN users' = rows /\ nextId' = id /\ UNCHANGED <<dbUsers, dbNextId>>
    ELSE dbUsers' = rows /\ dbNextId' = id /\ UNCHANGED <<users, nextId>>

TableKept == UNCHANGED <<users, nextId, dbUsers, dbNextId>>

\* isAdmin: 0 when the request may pass, else the status it is answered with.
IsAdminDenied(s) ==
    IF ~IsAuthenticated(s) THEN 401
    ELSE IF Deserialized(s).role # UserRole.ADMIN THEN 403
    ELSE 0

\* isAuthenticated: 0 when the request may pass, else 401.
IsAuthenticatedDenied(s) == IF ~IsAuthenticated(s) THEN 401 ELSE 0

\* The middleware in front of GET /, POST /, PUT /:id and DELETE /:id:
\* isAdmin in user.routes.ts, none in server/routes.ts.
AdminRoute(s) == IF server = "modular" THEN IsAdminDenied(s) ELSE 0

\* The middleware in front of GET /:id: isAuthenticated in user.routes.ts,
\* none in server/routes.ts.
AuthenticatedRoute(s) ==
    IF server = "modular" THEN IsAuthenticatedDenied(s) ELSE 0

Denied(op, s, status) ==
    Response(op, s, "", <<>>, status, "",
             IF status = 401 THEN "Unauthorized"
             ELSE "Forbidden: Admin access required",
             0)

\* error.message of the error the Prisma client throws for a missing row.
RecordNotFound == "Record not found"

GetAllUsers(s) ==
    /\ Received
    /\ IF AdminRoute(s) # 0
       THEN resp' = Denied("getAllUsers", s, AdminRoute(s))
       ELSE resp' = Response("getAllUsers", s, "", <<>>, 200, "", "", 0)
    /\ TableKept
    /\ UNCHANGED <<server, sess, req>>
    /\ UNCHANGED harnessVars

GetUserById(s, id) ==
    /\ Received
    /\ IF AuthenticatedRoute(s) # 0
       THEN resp' = Denied("getUserById", s, AuthenticatedRoute(s))
       ELSE IF id \notin DOMAIN Table
       THEN resp' = Response("getUserById", s, "", <<>>, 404,
                             "User not found", "", id)
       ELSE resp' = WithBody(Response("getUserById", s, "", <<>>, 200, "",
                                      "", id),
                             Table[id])
    /\ TableKept
    /\ UNCHANGED <<server, sess, req>>
    /\ UNCHANGED harnessVars

\* prisma.user.create({ data }): the row, with the defaults of the table
\* for the columns data does not name.
prismaCreate(id, data) ==
    NewUser(id, data.username, data.password,
            IF "role" \in DOMAIN data THEN data.role ELSE UserRole.USER,
            IF "status" \in DOMAIN data THEN data.status
            ELSE UserStatus.ACTIVE)

\* prisma.user.update({ where: { id }, data }): the row with the columns
\* data names written over.
prismaUpdate(id, data) == Spread(Table[id], data)

\* validationResult.data of createUser and updateUser, for a body with the
\* extra fields.
UserData(username, password, extra) ==
    validatedData(Spread(Body(username, password), extra))

CreateUser(s, username, password) ==
    /\ Received
    /\ IF AdminRoute(s) # 0
       THEN /\ resp' = Denied("createUser", s, AdminRoute(s))
            /\ TableKept
       ELSE IF ~ValidInsertUser(username, password)
       THEN /\ resp' = Response("createUser", s, username, password, 400,
                                "Invalid user data", "", 0)
            /\ TableKept
       ELSE IF TableUniqueViolation(username, 0)
       THEN /\ resp' = Response("createUser", s, username, password, 409,
                                "Username already exists", "", 0)
            /\ TableKept
       ELSE \E extra \in Extras :
               LET user == prismaCreate(TableNextId,
                                        UserData(username, password, extra))
               IN /\ TableSet(TableWith(user), TableNextId + 1)
                  /\ resp' = WithExtra(
                                 WithBody(Response("createUser", s, username,
                                                   password, 201, "", "",
                                                   user.id),
                                          user),
                                 extra)
    /\ UNCHANGED <<server, sess, req>>
    /\ UNCHANGED harnessVars

\* PUT /api/users/:id up to the await of prisma.user.findUnique.
UpdateUserStart(r, s, id, username, password) ==
    /\ Received
    /\ FreeSlot(r)
    /\ IF AdminRoute(s) # 0
       THEN /\ resp' = Denied("updateUser", s, AdminRoute(s))
            /\ UNCHANGED req
       ELSE IF ~ValidInsertUser(username, password)
       THEN /\ resp' = Response("updateUser", s, username, password, 400,
                                "Invalid user data", "", id)
            /\ UNCHANGED req
       ELSE IF id \notin DOMAIN Table
       THEN /\ resp' = Response("updateUser", s, username, password, 404,
                                "User not found", "", id)
            /\ UNCHANGED req
       ELSE /\ req' = [req EXCEPT ![r] =
                         [op |-> "updateUser", pc |-> "update", sid |-> s,
                          username |-> username, password |-> password,
                          found |-> Table[id], hashed |-> <<>>]]
            /\ UNCHANGED resp
    /\ TableKept
    /\ UNCHANGED <<server, sess>>
    /\ UNCHANGED harnessVars

\* PUT /api/users/:id from prisma.user.update on.
UpdateUserFinish(r) ==
    /\ UNCHANGED nreq
    /\ req[r].op = "updateUser" /\ req[r].pc = "update"
    /\ LET id == req[r].found.id
           username == req[r].username
           password == req[r].password
       IN IF id \notin DOMAIN Table
          THEN \* the row was deleted since findUnique: update throws
               /\ resp' = Response("updateUser", req[r].sid, username,
                                   password, 500, RecordNotFound, "", id)
               /\ TableKept
          ELSE IF TableUniqueViolation(username, id)
          THEN /\ resp' = Response("updateUser", req[r].sid, username,
                                   password, 409, "Username already exists",
                                   "", id)
               /\ TableKept
          ELSE \E extra \in Extras :
                  LET user == prismaUpdate(id, UserData(username, password,
                                                        extra))
                  IN /\ TableSet(TableWith(user), TableNextId)
                     /\ resp' = WithExtra(
                                    WithBody(Response("updateUser",
                                                      req[r].sid, username,
                                                      password, 200, "", "",
                                                      id),
                                             user),
                                    extra)
    /\ req' = [req EXCEPT ![r] = Idle]
    /\ UNCHANGED <<server, sess>>
    /\ UNCHANGED harnessVars

\* DELETE /api/users/:id up to the await of prisma.user.findUnique.
DeleteUserStart(r, s, id) ==
    /\ Received
    /\ FreeSlot(r)
    /\ IF AdminRoute(s) # 0
       THEN /\ resp' = Denied("deleteUser", s, AdminRoute(s))
            /\ UNCHANGED req
       ELSE IF id \notin DOMAIN Table
       THEN /\ resp' = Response("deleteUser", s, "", <<>>, 404,
                                "User not found", "", id)
            /\ UNCHANGED req
       ELSE /\ req' = [req EXCEPT ![r] =
                         [op |-> "deleteUser", pc |-> "delete", sid |-> s,
                          username |-> "", password |-> <<>>,
                          found |-> Table[id], hashed |-> <<>>]]
            /\ UNCHANGED resp
    /\ TableKept
    /\ UNCHANGED <<server, sess>>
    /\ UNCHANGED harnessVars

\* DELETE /api/users/:id from prisma.user.delete on.
DeleteUserFinish(r) ==
    /\ UNCHANGED nreq
    /\ req[r].op = "deleteUser" /\ req[r].pc = "delete"
    /\ LET id == req[r].found.id
       IN IF id \notin DOMAIN Table
          THEN \* the row was deleted since findUnique: delete throws
               /\ resp' = Response("deleteUser", req[r].sid, "", <<>>, 500,
                                   RecordNotFound, "", id)
               /\ TableKept
          ELSE /\ TableSet(TableWithout(id), TableNextId)
               /\ resp' = Response("deleteUser", req[r].sid, "", <<>>, 204,
                                   "", "", id)
    /\ req' = [req EXCEPT ![r] = Idle]
    /\ UNCHANGED <<server, sess>>
    /\ UNCHANGED harnessVars

----------------------------------------------------------------------------
(* The hashing harness: hashPassword then comparePasswords on drawn inputs  *)

LongPasswordA == [i \in 1..MaxPassword |-> "a"]
LongPasswordB ==
    [i \in 1..MaxPassword |-> IF i = MaxPassword THEN "b" ELSE "a"]

HashPasswords ==
    {Password1, AdminPassword, LongPasswordA, LongPasswordB,
     <<"P","a","s","s","w","0","r","d","!">>,
     <<"$","2","a","$","1","2","$","x">>,
     <<"p","a","s","s",".","w","0","r","d">>,
     <<"d","r","0","w","s","s","a","p">>}

HashInit ==
    /\ server = "modular" /\ users = <<>> /\ nextId = 1
    /\ sess = [s \in Sessions |-> 0]
    /\ req = [r \in Slots |-> Idle]
    /\ resp = NoResp
    /\ nreq = 0
    /\ dbUsers = <<>> /\ dbNextId = 1
    /\ tokens = {} /\ tokenId = 1 /\ slast = NoCall
    /\ eerr = NoError /\ eenv = "undefined" /\ eres = NoReply
    /\ DemoOff
    /\ form = NoForm
    /\ proc = NoProcess
    /\ hpc = "start"
    /\ hpw \in HashPasswords
    /\ hsupplied \in HashPasswords
    /\ hsalt \in RandomBytes(SaltLen)
    /\ hstored = <<>>
    /\ hverdict = FALSE

HashStep ==
    /\ hpc = "start"
    /\ hstored' = hashPassword(hpw, hsalt)
    /\ hpc' = "hashed"
    /\ UNCHANGED <<hpw, hsupplied, hsalt, hverdict>>
    /\ UNCHANGED <<appVars, tokenVars, errorVars, demoVars, formVars,
                   procVars>>

CompareStep ==
    /\ hpc = "hashed"
    /\ hverdict' = comparePasswords(hsupplied, hstored)
    /\ hpc' = "compared"
    /\ UNCHANGED <<hpw, hsupplied, hsalt, hstored>>
    /\ UNCHANGED <<appVars, tokenVars, errorVars, demoVars, formVars,
                   procVars>>

HashNext == HashStep \/ CompareStep

SpecHash == HashInit /\ [][HashNext]_vars

----------------------------------------------------------------------------
(* The storage interface: users and refresh tokens.  server selects the     *)
(* class: "legacy" is MemStorage, "modular" is PrismaStorage.               *)

\* The number of storage calls a behaviour of the storage harness holds.
MaxCalls == 4

TokenStrings == {"t1", "t2"}
StoreUsernames == {"alice", "bob"}

RefreshToken(id, token, userId) ==
    [id |-> id, token |-> token, userId |-> userId]

Called(op, userId) ==
    /\ nreq < MaxCalls
    /\ nreq' = nreq + 1
    /\ slast' = [op |-> op, userId |-> userId, before |-> tokens]

\* deleteUserRefreshTokens that deletes nothing.
deleteUserRefreshTokens_None(userId) == tokens

\* deleteUserRefreshTokens: the tokens left.
deleteUserRefreshTokens(userId) == {t \in tokens : t.userId # userId}

\* The refresh_tokens table after a user row is deleted: user_id references
\* users.id with onDelete cascade.
CascadeDeleted(userId) == {t \in tokens : t.userId # userId}

StorageInit ==
    /\ server \in Servers
    /\ users = [id \in {1} |-> NewUser(1, "admin", AdminHash, UserRole.ADMIN,
                                       UserStatus.ACTIVE)]
    /\ nextId = 2
    /\ sess = [s \in Sessions |-> 0]
    /\ req = [r \in Slots |-> Idle]
    /\ resp = NoResp
    /\ nreq = 0
    /\ dbUsers = <<>> /\ dbNextId = 1
    /\ hpc = "off" /\ hpw = <<>> /\ hsupplied = <<>> /\ hsalt = <<>>
    /\ hstored = <<>> /\ hverdict = FALSE
    /\ tokens = {} /\ tokenId = 1 /\ slast = NoCall
    /\ eerr = NoError /\ eenv = "undefined" /\ eres = NoReply
    /\ DemoOff
    /\ form = NoForm
    /\ proc = NoProcess

StorageCreateUser(username) ==
    /\ Called("createUser", nextId)
    /\ IF UniqueViolation(username, 0)
       THEN UNCHANGED <<users, nextId>>
       ELSE /\ users' = Inserted(NewUser(nextId, username, Password1,
                                         UserRole.USER, UserStatus.ACTIVE))
            /\ nextId' = nextId + 1
    /\ UNCHANGED <<tokens, tokenId>>
    /\ UNCHANGED <<server, dbUsers, dbNextId, sess, req, resp, hashVars,
                   errorVars, demoVars, formVars, procVars>>

StorageCreateRefreshToken(userId, token) ==
    /\ Called("createRefreshToken", userId)
    /\ IF server = "modular"
       THEN \* the insert fails on a token already stored (unique) and on a
            \* userId that is no user's (foreign key)
            IF userId \notin DOMAIN users \/ \E t \in tokens : t.token = token
            THEN UNCHANGED <<tokens, tokenId>>
            ELSE /\ tokens' = tokens \cup
                                {RefreshToken(tokenId, token, userId)}
                 /\ tokenId' = tokenId + 1
       ELSE \* this.tokens.set(token, refreshToken)
            /\ tokens' = {t \in tokens : t.token # token}
                             \cup {RefreshToken(tokenId, token, userId)}
            /\ tokenId' = tokenId + 1
    /\ UNCHANGED <<users, nextId>>
    /\ UNCHANGED <<server, dbUsers, dbNextId, sess, req, resp, hashVars,
                   errorVars, demoVars, formVars, procVars>>

StorageDeleteRefreshToken(token) ==
    /\ Called("deleteRefreshToken", 0)
    /\ tokens' = {t \in tokens : t.token # token}
    /\ UNCHANGED <<users, nextId, tokenId>>
    /\ UNCHANGED <<server, dbUsers, dbNextId, sess, req, resp, hashVars,
                   errorVars, demoVars, formVars, procVars>>

StorageDeleteUserRefreshTokens(userId) ==
    /\ Called("deleteUserRefreshTokens", userId)
    /\ tokens' = deleteUserRefreshTokens(userId)
    /\ UNCHANGED <<users, nextId, tokenId>>
    /\ UNCHANGED <<server, dbUsers, dbNextId, sess, req, resp, hashVars,
                   errorVars, demoVars, formVars, procVars>>

StorageDeleteUser(id) ==
    /\ Called("deleteUser", id)
    /\ IF server = "modular"
       THEN \* prisma.user.delete throws for a missing row; the error is
            \* logged and swallowed
            IF id \in DOMAIN users
            THEN users' = Removed(id) /\ tokens' = CascadeDeleted(id)
            ELSE UNCHANGED <<users, tokens>>
       ELSE /\ users' = IF id \in DOMAIN users THEN Removed(id) ELSE users
            /\ tokens' = deleteUserRefreshTokens(id)
    /\ UNCHANGED <<nextId, tokenId>>
    /\ UNCHANGED <<server, dbUsers, dbNextId, sess, req, resp, hashVars,
                   errorVars, demoVars, formVars, procVars>>

StorageNext ==
    \/ \E username \in StoreUsernames : StorageCreateUser(username)
    \/ \E userId \in 1..nextId, token \in TokenStrings :
           StorageCreateRefreshToken(userId, token)
    \/ \E token \in TokenStrings : StorageDeleteRefreshToken(token)
    \/ \E userId \in 1..nextId : StorageDeleteUserRefreshTokens(userId)
    \/ \E id \in 1..nextId : StorageDeleteUser(id)

SpecStorage == StorageInit /\ [][StorageNext]_vars

-----------------------------------------------------------------------------
(* The global error handler, called with the errors a handler can pass on   *)

Messages == {"boom", GenericMessage, ""}
ApiStatuses == {400, 404, 418, 500, 503}
Details == {NoDetails, [reason |-> "quota"]}

Issue(path, code, message) ==
    [path |-> path, code |-> code, message |-> message]

IssueLists ==
    {<<Issue(<<"username">>, "too_small", "Too short")>>,
     <<Issue(<<"username">>, "too_small", "Too short"),
       Issue(<<"password">>, "too_small", "Too short"),
       Issue(<<"username">>, "invalid_type", "Required")>>,
     <<Issue(<<>>, "custom", "Invalid")>>}

Errors ==
    {Error(class, m) : class \in {"Error", "TypeError"}, m \in Messages}
    \cup {ZodError(issues) : issues \in IssueLists}
    \cup {ApiError(m, status, d) :
              m \in Messages, status \in ApiStatuses, d \in Details}
    \cup {NotFoundError(resource, id) :
              resource \in {"Resource", "User"}, id \in {0, 7}}
    \cup {UnauthorizedError(m) : m \in {"Unauthorized access", "boom"}}
    \cup {AuthenticationError(m) : m \in {"Not authenticated", "boom"}}
    \cup {ValidationError(m, d) :
              m \in {"Validation error", "boom"}, d \in Details}
    \cup {ConflictError(m, field) :
              m \in {"Resource already exists", "boom"},
              field \in {"", "username"}}

ErrorInit ==
    /\ server = "modular" /\ users = <<>> /\ nextId = 1
    /\ sess = [s \in Sessions |-> 0]
    /\ req = [r \in Slots |-> Idle]
    /\ resp = NoResp
    /\ nreq = 0
    /\ dbUsers = <<>> /\ dbNextId = 1
    /\ hpc = "off" /\ hpw = <<>> /\ hsupplied = <<>> /\ hsalt = <<>>
    /\ hstored = <<>> /\ hverdict = FALSE
    /\ tokens = {} /\ tokenId = 1 /\ slast = NoCall
    /\ eerr = NoError /\ eenv \in NodeEnvs /\ eres = NoReply
    /\ DemoOff
    /\ form = NoForm
    /\ proc = NoProcess

\* next(err): express calls the handler with the error.
ErrorPassed(err) ==
    /\ eerr' = err
    /\ eres' = errorHandlerMiddleware(err, eenv)
    /\ UNCHANGED <<eenv, appVars, hashVars, tokenVars, demoVars,
                   formVars, procVars>>

ErrorNext == \E err \in Errors : ErrorPassed(err)

SpecError == ErrorInit /\ [][ErrorNext]_vars

-----------------------------------------------------------------------------
(* standalone-server.cjs and the Replit deployment server, request by       *)
(* request: their handlers do not await                                     *)

MaxDemoRequests == 4

DemoUsernames == {"demo", "alice", ""}
\* The passwords users register with, and one that no user registers with.
DemoPasswords == {"password", "passw0rd", ""}
WrongPassword == "wrong"

\* crypto.randomBytes(16).toString('hex'): two of the 2^128 values.
SessionIds == {"0f3a", "9c41"}

\* The names every object inherits from Object.prototype.
ObjectPrototype ==
    {"constructor", "__proto__", "hasOwnProperty", "isPrototypeOf",
     "propertyIsEnumerable", "toLocaleString", "toString", "valueOf"}

\* The Authorization header: absent, or a scheme and credentials.
NoHeader == <<>>
Header(scheme, credentials) ==
    [scheme |-> scheme, credentials |-> credentials]
Headers ==
    {NoHeader}
    \cup {Header("Bearer ", c) :
              c \in SessionIds \cup {"", "beef", "constructor", "toString"}}
    \cup {Header("", c) : c \in SessionIds}

\* req.get('Authorization')?.replace('Bearer ', ''): "" stands for
\* undefined, as falsy as the empty string.
sessionIdOf(header) ==
    IF header = NoHeader THEN ""
    ELSE IF header.scheme = "Bearer " THEN header.credentials
    ELSE header.scheme \o header.credentials

\* sessions[sessionId] is truthy: an own property, or one inherited from
\* Object.prototype.
HasProperty(sessionId) ==
    sessionId \in DOMAIN dsessions \/ sessionId \in ObjectPrototype

\* requireAuth calls next()
requireAuth(header) ==
    sessionIdOf(header) # "" /\ HasProperty(sessionIdOf(header))

\* req.user as JSON: the session's user; a function of Object.prototype has
\* no JSON form.
SessionUser(sessionId) ==
    IF sessionId \in DOMAIN dsessions THEN dsessions[sessionId]
    ELSE NoDemoBody

\* sessions[sessionId] = user
SessionSet(sessionId, user) ==
    [id \in DOMAIN dsessions \cup {sessionId} |->
        IF id = sessionId THEN user ELSE dsessions[id]]

\* delete sessions[sessionId]
SessionDeleted(sessionId) ==
    [id \in DOMAIN dsessions \ {sessionId} |-> dsessions[id]]

\* users.find(u => u.username === username), 0 when there is none.
DemoFind(username) ==
    IF \E i \in DOMAIN dusers : dusers[i].username = username
    THEN CHOOSE i \in DOMAIN dusers :
             /\ dusers[i].username = username
             /\ \A j \in DOMAIN dusers :
                    dusers[j].username = username => i <= j
    ELSE 0

\* A demo server's response, with the request it answers and the session
\* ids that were own properties of sessions when the handler ran.
DemoResponse(op, username, password, auth, status, error, user, token) ==
    [op |-> op, username |-> username, password |-> password, auth |-> auth,
     status |-> status, error |-> error, user |-> user, token |-> token,
     known |-> DOMAIN dsessions]

DemoReceived == nreq < MaxDemoRequests /\ nreq' = nreq + 1

DemoInit ==
    /\ server = "modular" /\ users = <<>> /\ nextId = 1
    /\ sess = [s \in Sessions |-> 0]
    /\ req = [r \in Slots |-> Idle]
    /\ resp = NoResp
    /\ nreq = 0
    /\ dbUsers = <<>> /\ dbNextId = 1
    /\ hpc = "off" /\ hpw = <<>> /\ hsupplied = <<>> /\ hsalt = <<>>
    /\ hstored = <<>> /\ hverdict = FALSE
    /\ tokens = {} /\ tokenId = 1 /\ slast = NoCall
    /\ eerr = NoError /\ eenv = "undefined" /\ eres = NoReply
    /\ demo \in DemoServers
    /\ dusers = DemoSeed
    /\ dsessions = <<>>
    /\ dres = NoDemoResponse
    /\ form = NoForm
    /\ proc = NoProcess

DemoFrame ==
    UNCHANGED <<server, users, nextId, sess, req, resp, dbUsers, dbNextId,
                hashVars, tokenVars, errorVars, demo, formVars, procVars>>

\* app.post('/api/register')
DemoRegister(username, password) ==
    /\ DemoReceived
    /\ LET answer(status, error, user, token) ==
               DemoResponse("register", username, password, NoHeader, status,
                            error, user, token)
       IN IF demo = "standalone" /\ (username = "" \/ password = "")
          THEN /\ dres' = answer(400, "Username and password are required",
                                 NoDemoBody, "")
               /\ UNCHANGED <<dusers, dsessions>>
          ELSE IF DemoFind(username) # 0
          THEN /\ dres' = answer(400, "Username already exists", NoDemoBody,
                                 "")
               /\ UNCHANGED <<dusers, dsessions>>
          ELSE IF demo = "standalone"
          THEN \E sessionId \in SessionIds :
                  LET newUser == DemoUser(Len(dusers) + 1, username,
                                          demoHashPassword(password))
                  IN /\ dusers' = Append(dusers, newUser)
                     /\ dsessions' = SessionSet(sessionId,
                                                WithoutSecret(newUser))
                     /\ dres' = answer(201, "", WithoutSecret(newUser),
                                       sessionId)
          ELSE LET newUser == DemoUser(Len(dusers) + 1, username,
                                       "hashed_password_would_go_here")
               IN /\ dusers' = Append(dusers, newUser)
                  /\ dres' = answer(201, "", WithoutSecret(newUser), "")
                  /\ UNCHANGED dsessions
    /\ DemoFrame

\* app.post('/api/login')
DemoLogin(username, password) ==
    /\ DemoReceived
    /\ LET answer(status, error, user, token) ==
               DemoResponse("login", username, password, NoHeader, status,
                            error, user, token)
           found == DemoFind(username)
       IN IF demo = "standalone"
          THEN IF username = "" \/ password = ""
               THEN /\ dres' = answer(400,
                                      "Username and password are required",
                                      NoDemoBody, "")
                    /\ UNCHANGED dsessions
               ELSE IF \/ found = 0
                       \/ dusers[found].secret # demoHashPassword(password)
               THEN /\ dres' = answer(401, "Invalid credentials", NoDemoBody,
                                      "")
                    /\ UNCHANGED dsessions
               ELSE \E sessionId \in SessionIds :
                       LET sessionUser == WithoutSecret(dusers[found])
                       IN /\ dsessions' = SessionSet(sessionId, sessionUser)
                          /\ dres' = answer(200, "", sessionUser, sessionId)
          ELSE /\ dres' = IF found # 0
                          THEN answer(200, "", WithoutSecret(dusers[found]),
                                      "")
                          ELSE answer(401, "Invalid credentials", NoDemoBody,
                                      "")
               /\ UNCHANGED dsessions
    /\ UNCHANGED dusers
    /\ DemoFrame

\* app.post('/api/logout')
DemoLogout(header) ==
    /\ DemoReceived
    /\ LET answer(status, error) ==
               DemoResponse("logout", "", "", header, status, error,
                            NoDemoBody, "")
       IN IF demo = "standalone" /\ ~requireAuth(header)
          THEN /\ dres' = answer(401, "Unauthorized")
               /\ UNCHANGED dsessions
          ELSE /\ dres' = answer(200, "")
               /\ dsessions' = IF demo = "standalone"
                               THEN SessionDeleted(sessionIdOf(header))
                               ELSE dsessions
    /\ UNCHANGED dusers
    /\ DemoFrame

\* app.get('/api/user')
DemoGetUser(header) ==
    /\ DemoReceived
    /\ LET answer(status, error, user) ==
               DemoResponse("getUser", "", "", header, status, error, user,
                            "")
       IN dres' = IF demo = "replit"
                  THEN answer(401, "Not authenticated", NoDemoBody)
                  ELSE IF ~requireAuth(header)
                  THEN answer(401, "Unauthorized", NoDemoBody)
                  ELSE answer(200, "", SessionUser(sessionIdOf(header)))
    /\ UNCHANGED <<dusers, dsessions>>
    /\ DemoFrame

DemoNext ==
    \/ \E username \in DemoUsernames, password \in DemoPasswords :
           DemoRegister(username, password)
    \/ \E username \in DemoUsernames,
          password \in DemoPasswords \cup {WrongPassword} :
           DemoLogin(username, password)
    \/ \E header \in Headers : DemoLogout(header)
    \/ \E header \in Headers : DemoGetUser(header)

SpecDemo == DemoInit /\ [][DemoNext]_vars

-----------------------------------------------------------------------------
(* A registration form filled in, submitted and parsed by the server        *)

FormUsernames == {StringOf(n) : n \in {2, MinUsername, MaxUsername,
                                       MaxUsername + 1}}
FormPasswords == {StringOf(n) : n \in {7, MinPassword, MaxPassword,
                                       MaxPassword + 1}}
FormEmails ==
    {<<>>, <<"a", "@", "b", ".", "c", "o">>, <<"a", "b", ".", "c", "o">>}

\* The values of the form: email is "" until the user types one; a caller of
\* the schema may leave it out.
FormData ==
    [username : FormUsernames, email : FormEmails, password : FormPasswords,
     confirmPassword : FormPasswords]
    \cup [username : FormUsernames, password : FormPasswords,
          confirmPassword : FormPasswords]

FormInit ==
    /\ server = "modular" /\ users = <<>> /\ nextId = 1
    /\ sess = [s \in Sessions |-> 0]
    /\ req = [r \in Slots |-> Idle]
    /\ resp = NoResp
    /\ nreq = 0
    /\ dbUsers = <<>> /\ dbNextId = 1
    /\ hpc = "off" /\ hpw = <<>> /\ hsupplied = <<>> /\ hsalt = <<>>
    /\ hstored = <<>> /\ hverdict = FALSE
    /\ tokens = {} /\ tokenId = 1 /\ slast = NoCall
    /\ eerr = NoError /\ eenv = "undefined" /\ eres = NoReply
    /\ DemoOff
    /\ \E data \in FormData :
           form = [pc |-> "filled", data |-> data, body |-> <<>>,
                   success |-> FALSE]
    /\ proc = NoProcess

\* handleSubmit with zodResolver(registerSchema): onRegisterSubmit runs for
\* valid values only and sends them without confirmPassword.
onRegisterSubmit ==
    /\ form.pc = "filled"
    /\ form' = IF registerSchema(form.data)
               THEN [form EXCEPT !.pc = "sent",
                                 !.body = registrationData(form.data)]
               ELSE [form EXCEPT !.pc = "invalid"]
    /\ UNCHANGED <<appVars, hashVars, tokenVars, errorVars, demoVars,
                   procVars>>

\* register of auth.controller.ts up to its validation.
RegisterValidate ==
    /\ form.pc = "sent"
    /\ form' = [form EXCEPT !.pc = "parsed",
                            !.success = insertUserSchema(form.body)]
    /\ UNCHANGED <<appVars, hashVars, tokenVars, errorVars, demoVars,
                   procVars>>

FormNext == onRegisterSubmit \/ RegisterValidate

SpecForm == FormInit /\ [][FormNext]_vars

-----------------------------------------------------------------------------
(* The server process from listen to exit: server/src/index.ts and          *)
(* render-server.cjs                                                        *)

MaxSignals == 2

ProcessFiles == {"index.ts", "render-server.cjs"}
Connections == {"c1", "c2"}

ShutdownInit ==
    /\ server = "modular" /\ users = <<>> /\ nextId = 1
    /\ sess = [s \in Sessions |-> 0]
    /\ req = [r \in Slots |-> Idle]
    /\ resp = NoResp
    /\ nreq = 0
    /\ dbUsers = <<>> /\ dbNextId = 1
    /\ hpc = "off" /\ hpw = <<>> /\ hsupplied = <<>> /\ hsalt = <<>>
    /\ hstored = <<>> /\ hverdict = FALSE
    /\ tokens = {} /\ tokenId = 1 /\ slast = NoCall
    /\ eerr = NoError /\ eenv = "undefined" /\ eres = NoReply
    /\ DemoOff
    /\ form = NoForm
    /\ \E file \in ProcessFiles, closesIdle \in BOOLEAN :
           proc = [file |-> file, closesIdle |-> closesIdle,
                   state |-> "listening", code |-> 0,
                   conns |-> [c \in Connections |-> "none"],
                   timers |-> 0, signals |-> 0]

ShutdownFrame ==
    UNCHANGED <<appVars, hashVars, tokenVars, errorVars, demoVars, formVars>>

\* A client connects and sends a request.
Connect(c) ==
    /\ proc.state = "listening" /\ proc.conns[c] = "none"
    /\ proc' = [proc EXCEPT !.conns[c] = "active"]
    /\ ShutdownFrame

\* The request of a connection is answered: the connection is kept alive,
\* idle.
RequestDone(c) ==
    /\ proc.state # "exited" /\ proc.conns[c] = "active"
    /\ proc' = [proc EXCEPT !.conns[c] = "idle"]
    /\ ShutdownFrame

\* The client closes its connection.
Disconnect(c) ==
    /\ proc.state # "exited" /\ proc.conns[c] # "none"
    /\ proc' = [proc EXCEPT !.conns[c] = "none"]
    /\ ShutdownFrame

\* server.close(): the connections left, where the runtime closes the idle
\* ones on close() and where it does not.
AfterClose ==
    [c \in Connections |->
        IF proc.closesIdle /\ proc.conns[c] = "idle" THEN "none"
        ELSE proc.conns[c]]

\* process.on(signal): server.close(callback), and in render-server.cjs the
\* 10 second timer.
SignalReceived ==
    /\ proc.state \in {"listening", "closing"}
    /\ proc.signals < MaxSignals
    /\ proc' = [proc EXCEPT !.state = "closing",
                            !.signals = @ + 1,
                            !.conns = AfterClose,
                            !.timers = IF proc.file = "render-server.cjs"
                                       THEN @ + 1 ELSE @]
    /\ ShutdownFrame

\* The callback of server.close: every connection has ended;
\* process.exit(0).
CloseCallback ==
    /\ proc.state = "closing"
    /\ \A c \in Connections : proc.conns[c] = "none"
    /\ proc' = [proc EXCEPT !.state = "exited", !.code = 0]
    /\ ShutdownFrame

\* The setTimeout callback of render-server.cjs: process.exit(1).
ForcedShutdown ==
    /\ proc.state = "closing" /\ proc.timers > 0
    /\ proc' = [proc EXCEPT !.state = "exited", !.code = 1]
    /\ ShutdownFrame

ShutdownNext ==
    \/ \E c \in Connections : Connect(c)
    \/ \E c \in Connections : RequestDone(c)
    \/ \E c \in Connections : Disconnect(c)
    \/ SignalReceived
    \/ CloseCallback
    \/ ForcedShutdown

\* The event loop runs a callback that is due; clients owe the server
\* nothing.
SpecShutdown ==
    /\ ShutdownInit /\ [][ShutdownNext]_vars
    /\ WF_vars(CloseCallback) /\ WF_vars(ForcedShutdown)

----------------------------------------------------------------------------

Next ==
    \/ \E r \in Slots, s \in Sessions, b \in Bodies :
           RegisterStart(r, s, b.username, b.password)
    \/ \E r \in Slots, sb \in RandomBytes(SaltLen) : RegisterHash(r, sb)
    \/ \E r \in Slots : RegisterCreate(r)
    \/ \E r \in Slots, s \in Sessions, b \in Bodies :
           LoginStart(r, s, b.username, b.password)
    \/ \E r \in Slots : LoginFinish(r)
    \/ \E s \in Sessions : Logout(s)
    \/ \E s \in Sessions : GetCurrentUser(s)
    \/ \E id \in 1..nextId, st \in Statuses : UpdateUserStatus(id, st)
    \/ \E s \in Sessions : GetAllUsers(s)
    \/ \E s \in Sessions, id \in 1..TableNextId : GetUserById(s, id)
    \/ \E s \in Sessions, b \in Bodies : CreateUser(s, b.username, b.password)
    \/ \E r \in Slots, s \in Sessions, id \in 1..TableNextId, b \in Bodies :
           UpdateUserStart(r, s, id, b.username, b.password)
    \/ \E r \in Slots : UpdateUserFinish(r)
    \/ \E r \in Slots, s \in Sessions, id \in 1..TableNextId :
           DeleteUserStart(r, s, id)
    \/ \E r \in Slots : DeleteUserFinish(r)

Spec == Init /\ [][Next]_vars

----------------------------------------------------------------------------
(* Properties                                                               *)

\* The strings hashPassword can return for a password.
HashesOf(password) ==
    {hashPassword(password, sb) : sb \in RandomBytes(SaltLen)}

RequestPasswords == {b.password : b \in Bodies}

\* The record POST /api/register creates for {username, password}.
RegisteredAs(user, username, password) ==
    /\ user.username = username
    /\ user.password \in HashesOf(password)
    /\ user.role = UserRole.USER

\* C1: POST /api/register with a valid body whose username belongs to a
\* stored user is answered 409 and leaves the stored users unchanged.
C1_TakenUsernameIsConflict ==
    [][\A r \in Slots, s \in Sessions, b \in Bodies :
          (/\ RegisterStart(r, s, b.username, b.password)
           /\ ValidInsertUser(b.username, b.password)
           /\ getUserByUsername(b.username) # NoUser)
          => (/\ resp'.op = "register"
              /\ resp'.status = 409
              /\ users' = users)]_vars

\* C2: every stored password is the seeded admin hash or an output of
\* hashPassword, never a password as a request carried it.
C2_PasswordsStoredHashed ==
    \A id \in DOMAIN users :
        \/ users[id].password = AdminHash
        \/ \E p \in RequestPasswords : users[id].password \in HashesOf(p)

\* C3: no two stored users have the same username.
C3_UsernamesUnique ==
    \A i \in DOMAIN users, j \in DOMAIN users :
        users[i].username = users[j].username => i = j

\* C4: a login whose account is disabled is never completed: it is not
\* answered 200, carries no user, and leaves the session as it was.
C4_DisabledNeverLogsIn ==
    [][\A r \in Slots :
          (LoginFinish(r) /\ req[r].found.status = UserStatus.DISABLED)
          => (/\ resp'.op = "login"
              /\ resp'.status # 200
              /\ resp'.uid = 0
              /\ sess' = sess)]_vars

\* C4 witness: a disabled account gave its correct password and was refused,
\* the session still anonymous.
C4_Witness ==
    /\ resp.op = "login" /\ resp.status = 401
    /\ resp.message = AccountDisabled
    /\ sess[resp.sid] = 0
    /\ \E id \in DOMAIN users :
           /\ users[id].username = resp.username
           /\ users[id].status = UserStatus.DISABLED
           /\ comparePasswords(resp.password, users[id].password)

C6_RegisterThenLogin ==
    [][/\ \A r \in Slots, s \in Sessions, b \in Bodies, id \in DOMAIN users :
             (/\ LoginStart(r, s, b.username, b.password)
              /\ \E p \in RequestPasswords :
                     /\ ValidInsertUser(b.username, p)
                     /\ RegisteredAs(users[id], b.username, p)
                     /\ users[id].status = UserStatus.ACTIVE)
             => req'[r].found = users[id]
       /\ \A r \in Slots, p \in RequestPasswords :
             (/\ LoginFinish(r)
              /\ ValidInsertUser(req[r].username, p)
              /\ RegisteredAs(req[r].found, req[r].username, p)
              /\ req[r].found.status = UserStatus.ACTIVE)
             => IF req[r].password = p
                THEN resp'.status = 200 /\ resp'.uid = req[r].found.id
                ELSE resp'.status = 401 /\ resp'.uid = 0]_vars

\* The body and status a login with invalid credentials is answered with.
InvalidLogin(r) ==
    /\ resp'.op = "login"
    /\ resp'.status = 401
    /\ resp'.error = AuthError
    /\ resp'.message = InvalidCredentials
    /\ resp'.uid = 0

\* C7: a login for a username that does not exist and a login with a wrong
\* password for an existing account, whatever its status, get the same status
\* and body; "Account is disabled" is given only for the correct password of
\* a disabled account.
C7_InvalidLoginsAlike ==
    [][/\ \A r \in Slots, s \in Sessions, b \in Bodies :
             (/\ LoginStart(r, s, b.username, b.password)
              /\ getUserByUsername(b.username) = NoUser)
             => InvalidLogin(r)
       /\ \A r \in Slots :
             (/\ LoginFinish(r)
              /\ ~comparePasswords(req[r].password, req[r].found.password))
             => InvalidLogin(r)
       /\ \A r \in Slots :
             (LoginFinish(r) /\ resp'.message = AccountDisabled)
             => (/\ comparePasswords(req[r].password, req[r].found.password)
                 /\ req[r].found.status = UserStatus.DISABLED)]_vars

\* C7 witness: a wrong password for a disabled account got the answer an
\* unknown username gets.
C7_Witness ==
    /\ resp.op = "login" /\ resp.status = 401
    /\ resp.message = InvalidCredentials
    /\ \E id \in DOMAIN users :
           /\ users[id].username = resp.username
           /\ users[id].status = UserStatus.DISABLED
           /\ ~comparePasswords(resp.password, users[id].password)

\* C8: a login with the correct password of a disabled account is answered
\* with HTTP 403.
C8_DisabledIs403 ==
    [][\A r \in Slots :
          (/\ LoginFinish(r)
           /\ req[r].found.status = UserStatus.DISABLED
           /\ comparePasswords(req[r].password, req[r].found.password))
          => resp'.status = 403]_vars

\* A register or login request of session s is answered with success.
Established(s) ==
    \E r \in Slots :
        /\ req[r].sid = s
        /\ \/ RegisterCreate(r) /\ resp'.status = 201
           \/ LoginFinish(r) /\ resp'.status = 200

\* A successful register or login makes the session name the user answered.
EstablishesSession ==
    \A r \in Slots :
        ((RegisterCreate(r) /\ resp'.status = 201)
         \/ (LoginFinish(r) /\ resp'.status = 200))
        => (resp'.uid # 0 /\ sess'[req[r].sid] = resp'.uid)

\* While its user stays stored, a session stops naming it only by a logout
\* of that session or by a successful register or login on it.
SessionKept ==
    \A s \in Sessions :
        (/\ sess[s] \in DOMAIN users
         /\ sess[s] \in DOMAIN users'
         /\ sess'[s] # sess[s])
        => (Logout(s) \/ Established(s))

C12_NoPasswordInBody ==
    (resp.op \in {"register", "login", "user"} /\ resp.status \in {200, 201})
    => (/\ resp.user.id = resp.uid
        /\ "password" \notin DOMAIN resp.user)

\* C12 witness: a registration answered 201 with the new user in its body.
C12_Witness ==
    /\ resp.op = "register" /\ resp.status = 201
    /\ resp.user.id \in DOMAIN users
    /\ resp.user.username = users[resp.user.id].username

\* C13: after deleteUser(id) no refresh token of user id is stored, and the
\* refresh tokens of every other user are the ones stored before the call.
C13_DeleteUserRemovesTokens ==
    slast.op = "deleteUser"
    => tokens = {t \in slast.before : t.userId # slast.userId}

\* C13 witness: deleteUser removed a token of the deleted user and left
\* another user's token stored.
C13_Witness ==
    /\ slast.op = "deleteUser"
    /\ \E t \in slast.before : t.userId = slast.userId
    /\ \E t \in tokens : t.userId # slast.userId

\* A request of session s to one of the routes for administrators.
AdminRequest(s) ==
    \/ GetAllUsers(s)
    \/ \E b \in Bodies : CreateUser(s, b.username, b.password)
    \/ \E r \in Slots, id \in 1..TableNextId, b \in Bodies :
           UpdateUserStart(r, s, id, b.username, b.password)
    \/ \E r \in Slots, id \in 1..TableNextId : DeleteUserStart(r, s, id)

\* The request is answered with status and goes no further: no stored user
\* changes and no handler is left waiting.
Refused(status) ==
    /\ resp'.status = status
    /\ users' = users /\ dbUsers' = dbUsers
    /\ req' = req

\* C14: GET /api/users, POST /api/users, PUT /api/users/:id and DELETE
\* /api/users/:id are answered 401 on a session that is not authenticated
\* and 403 on a session whose user is not an admin, with the stored data
\* unchanged; GET /api/users/:id is answered 401 on a session that is not
\* authenticated and is served on every authenticated one.
C14_UsersRoutesGuarded ==
    [][\A s \in Sessions :
          /\ (AdminRequest(s) /\ ~IsAuthenticated(s)) => Refused(401)
          /\ (/\ AdminRequest(s)
              /\ IsAuthenticated(s)
              /\ Deserialized(s).role # UserRole.ADMIN) => Refused(403)
          /\ \A id \in 1..TableNextId :
                GetUserById(s, id)
                => IF IsAuthenticated(s)
                   THEN resp'.status \in {200, 404}
                   ELSE Refused(401)]_vars

\* C15: PUT and DELETE /api/users/:id for an id that has no stored user are
\* answered 404 and change no stored data, whether the user is missing when
\* the handler looks it up or when it writes; DELETE of a stored user is
\* answered 204 and removes it; a GET of an id without a stored user is
\* answered 404, and a deleted id is never stored again.
C15_MissingUserIs404 ==
    [][/\ \A r \in Slots, s \in Sessions, id \in 1..TableNextId :
             (/\ \/ DeleteUserStart(r, s, id)
                 \/ \E b \in Bodies :
                        /\ UpdateUserStart(r, s, id, b.username, b.password)
                        /\ ValidInsertUser(b.username, b.password)
              /\ AdminRoute(s) = 0
              /\ id \notin DOMAIN Table)
             => Refused(404)
       /\ \A r \in Slots :
             (UpdateUserFinish(r) /\ req[r].found.id \notin DOMAIN Table)
             => (resp'.status = 404 /\ users' = users /\ dbUsers' = dbUsers)
       /\ \A r \in Slots :
             DeleteUserFinish(r)
             => IF req[r].found.id \in DOMAIN Table
                THEN resp'.status = 204 /\ req[r].found.id \notin DOMAIN Table'
                ELSE /\ resp'.status = 404
                     /\ users' = users /\ dbUsers' = dbUsers
       /\ \A s \in Sessions, id \in 1..TableNextId :
             (/\ GetUserById(s, id)
              /\ AuthenticatedRoute(s) = 0
              /\ id \notin DOMAIN Table)
             => resp'.status = 404
       /\ \A id \in 1..TableNextId :
             (id < TableNextId /\ id \notin DOMAIN Table)
             => id \notin DOMAIN Table']_vars

\* A row other than exceptId has the username.
Collides(username, exceptId) ==
    \E other \in DOMAIN Table :
        other # exceptId /\ Table[other].username = username

\* C16: a POST /api/users or PUT /api/users/:id whose username is that of
\* another stored user is answered 409 and changes no stored data.
C16_CollisionIsConflict ==
    [][/\ \A s \in Sessions, b \in Bodies :
             (/\ CreateUser(s, b.username, b.password)
              /\ AdminRoute(s) = 0
              /\ ValidInsertUser(b.username, b.password)
              /\ Collides(b.username, 0))
             => (/\ resp'.status = 409
                 /\ users' = users /\ dbUsers' = dbUsers)
       /\ \A r \in Slots :
             (/\ UpdateUserFinish(r)
              /\ Collides(req[r].username, req[r].found.id))
             => (/\ resp'.status = 409
                 /\ users' = users /\ dbUsers' = dbUsers)]_vars

\* C17: a register, create-user or update-user request whose body fails
\* insertUserSchema is answered 400 at once: the stored users, the sessions
\* and the requests in flight are unchanged.
C17_InvalidBodyIs400 ==
    [][\A r \in Slots, s \in Sessions, b \in Bodies, id \in 1..2 :
          (/\ ~ValidInsertUser(b.username, b.password)
           /\ \/ RegisterStart(r, s, b.username, b.password)
              \/ /\ AdminRoute(s) = 0
                 /\ \/ CreateUser(s, b.username, b.password)
                    \/ UpdateUserStart(r, s, id, b.username, b.password))
          => (/\ resp'.status = 400
              /\ users' = users /\ dbUsers' = dbUsers
              /\ sess' = sess /\ req' = req)]_vars

\* C18: every user created through POST /api/register has role user and
\* status active, whatever else its body carried.
C18_RegisteredAsActiveUser ==
    [][\A r \in Slots :
          (RegisterCreate(r) /\ users' # users)
          => (/\ DOMAIN users' = DOMAIN users \cup {nextId}
              /\ users'[nextId].role = UserRole.USER
              /\ users'[nextId].status = UserStatus.ACTIVE)]_vars

\* C18 witness: a registration whose body asked for the admin role and the
\* disabled status created a user.
C18_Witness ==
    /\ resp.op = "register" /\ resp.status = 201
    /\ resp.extra # NoExtra
    /\ resp.extra.role = UserRole.ADMIN
    /\ "status" \in DOMAIN resp.extra
    /\ resp.uid \in DOMAIN users
    /\ users[resp.uid].role = UserRole.USER

\* C19: the global error handler answers a ZodError with 400, an ApiError
\* with its own status (404, 403, 401, 400 and 409 for the subclasses) and
\* any other error with 500, whose message is the generic one in production
\* and the error's own otherwise.
C19_ErrorHandlerAnswers ==
    eerr # NoError =>
        /\ eerr.class \in {"Error", "TypeError"} =>
               /\ eres.status = 500
               /\ eres.body.message = IF eenv = "production"
                                      THEN "An unexpected error occurred"
                                      ELSE eerr.message
        /\ eerr.class = "ZodError" => eres.status = 400
        /\ eerr.class = "ApiError" => eres.status = eerr.status
        /\ eerr.class = "NotFoundError" => eres.status = 404
        /\ eerr.class = "UnauthorizedError" => eres.status = 403
        /\ eerr.class = "AuthenticationError" => eres.status = 401
        /\ eerr.class = "ValidationError" => eres.status = 400
        /\ eerr.class = "ConflictError" => eres.status = 409

\* C19 witness: in production an error of no known class, with a message of
\* its own, was answered 500 with the generic message.
C19_Witness ==
    /\ eenv = "production"
    /\ eerr.class = "TypeError" /\ eerr.message = "boom"
    /\ eres.status = 500
    /\ eres.body.message = "An unexpected error occurred"

\* C20: a login for an account whose status is suspended is rejected and
\* establishes no session.
C20_SuspendedCannotLogin ==
    [][\A r \in Slots :
          (LoginFinish(r) /\ req[r].found.status = UserStatus.SUSPENDED)
          => (/\ resp'.status # 200
              /\ sess' = sess)]_vars

\* C21: a login whose password is not the password of the named account is
\* answered 401 and returns no user data, on the demo servers.
C21_WrongPasswordIs401 ==
    [][\A username \in DemoUsernames :
          (DemoLogin(username, WrongPassword) /\ username # "")
          => (/\ dres'.status = 401
              /\ dres'.user = NoDemoBody /\ dres'.token = "")]_vars

\* C22: a PUT or DELETE /api/users/:id whose user was deleted by another
\* request between its existence check and its write is answered 404 and
\* leaves the store as that other request left it.
C22_DeletedMeanwhileIs404 ==
    [][\A r \in Slots :
          (/\ UpdateUserFinish(r) \/ DeleteUserFinish(r)
           /\ req[r].found.id \notin DOMAIN Table)
          => (/\ resp'.status = 404
              /\ users' = users /\ dbUsers' = dbUsers)]_vars

\* C23: in standalone-server.cjs a request passes requireAuth exactly when
\* its token is a session id that a register or login returned and no logout
\* has removed; any other token is answered 401.
C23_OnlyLiveSessionIdsPass ==
    [][\A header \in Headers :
          (/\ demo = "standalone"
           /\ DemoLogout(header) \/ DemoGetUser(header))
          => (dres'.status # 401
              <=> sessionIdOf(header) \in DOMAIN dsessions)]_vars

\* C24: an active user whose stored password is the password p that POST
\* /api/users or PUT /api/users/:id was given logs in with p.
C24_CrudPasswordLogsIn ==
    [][\A r \in Slots :
          (/\ LoginFinish(r)
           /\ req[r].found.password = req[r].password
           /\ req[r].found.status = UserStatus.ACTIVE)
          => (/\ resp'.status = 200
              /\ sess'[req[r].sid] = req[r].found.id)]_vars

\* C25: no response of the /api/users endpoints carries a user's stored
\* password in its body.
C25_NoPasswordFromUsersRoutes ==
    resp.op \in {"getAllUsers", "getUserById", "createUser", "updateUser"}
        => "password" \notin DOMAIN resp.user

\* C26: a POST /api/register that is not answered 201 leaves the stored
\* users as they were.
C26_FailedRegisterStoresNothing ==
    [][\A r \in Slots :
          (RegisterCreate(r) /\ resp'.status # 201) => users' = users]_vars

\* C27: a session whose user is disabled is not authenticated: GET /api/user
\* and the routes behind isAuthenticated or isAdmin answer 401 for it.
C27_DisabledSessionIs401 ==
    [][\A s \in Sessions :
          (/\ sess[s] \in DOMAIN users
           /\ users[sess[s]].status = UserStatus.DISABLED
           /\ \/ GetCurrentUser(s)
              \/ /\ server = "modular"
                 /\ \/ GetAllUsers(s)
                    \/ \E id \in 1..TableNextId : GetUserById(s, id))
          => resp'.status = 401]_vars

\* C28: no step changes the role of a stored user, and every user a step
\* creates has the role user.
C28_RolesNeverChange ==
    [][/\ \A id \in DOMAIN users \cap DOMAIN users' :
             users'[id].role = users[id].role
       /\ \A id \in DOMAIN users' \ DOMAIN users :
             users'[id].role = UserRole.USER
       /\ \A id \in DOMAIN dbUsers \cap DOMAIN dbUsers' :
             dbUsers'[id].role = dbUsers[id].role
       /\ \A id \in DOMAIN dbUsers' \ DOMAIN dbUsers :
             dbUsers'[id].role = UserRole.USER]_vars

\* C28 witness: a PUT /api/users/:id whose body asked for the admin role
\* updated a user, who is still no admin.
C28_Witness ==
    /\ resp.op = "updateUser" /\ resp.status = 200
    /\ resp.extra # NoExtra
    /\ resp.extra.role = UserRole.ADMIN
    /\ resp.uid \in DOMAIN Table
    /\ Table[resp.uid].role = UserRole.USER
    /\ Table[resp.uid].username = resp.username

\* C29: a registration the client's form accepts and sends is accepted by
\* the server's insertUserSchema.
C29_FormValidIsServerValid ==
    form.pc = "parsed" => form.success

\* C30: once SIGINT or SIGTERM is received the server process eventually
\* exits, whatever its clients do.
C30_EventuallyExits ==
    (proc.state = "closing") ~> (proc.state = "exited")

====
